---------------------------- MODULE Spec2Model ----------------------------
(***************************************************************************)
(* optimum/intel/ipex/modeling_base.py: the IPEX model wrappers.           *)
(*                                                                         *)
(* The model follows one caller thread.  It holds one IPEX model instance  *)
(* (the caller's variable, rebound by every construction), one             *)
(* caller-owned GenerationConfig object, and the module-level state of     *)
(* the transformers library that IPEXModelForCausalLM.generate touches:    *)
(* the cache-class mapping, the list of allowed cache implementations and  *)
(* the two module attributes that hold the crop function.                  *)
(*                                                                         *)
(* GenerationMixin.generate (the "delegated generation") is library code.  *)
(* It is modelled by what it does to this file: it calls the overridden    *)
(* _prepare_generation_config, then decodes, and it either returns or      *)
(* raises an instance of Exception.                                        *)
(***************************************************************************)
EXTENDS Naturals, Sequences, FiniteSets, TLC

VARIABLES
    env,                               \* installed library versions (fixed)
    NEED_SETUP_CACHE_CLASSES_MAPPING,  \* transformers.generation.utils
    ALL_CACHE_IMPLEMENTATIONS,         \* transformers.generation.configuration_utils
    utils_crop,                        \* transformers.generation.utils._crop_past_key_values
    candidate_crop,                    \* transformers.generation.candidate_generator._crop_past_key_values
    self,                              \* the IPEX model instance, or NoModel
    bound,                             \* the constructor has returned self to the caller
    warm,                              \* warmup generate calls the constructor has still to start
    cache_implementation,              \* cache_implementation of each GenerationConfig object
    pc,                                \* position of the caller thread
    frame,                             \* locals of the generate call in progress (or just finished)
    pre,                               \* the state at entry of that generate call
    prepared,                          \* what _prepare_generation_config has just returned, or NoPrepared
    exc,                               \* the exception in flight, or NoValue
    crop,                              \* the crop-hook call the decoding has just made, or NoCrop
    result,                            \* how the last operation ended
    call,                              \* the arguments of the construction that has just run
    log                                \* the calls the last construction made, in order

vars == <<env, NEED_SETUP_CACHE_CLASSES_MAPPING, ALL_CACHE_IMPLEMENTATIONS, utils_crop,
          candidate_crop, self, bound, warm, cache_implementation, pc, frame, pre,
          prepared, exc, crop, result, call, log>>

globals == <<NEED_SETUP_CACHE_CLASSES_MAPPING, ALL_CACHE_IMPLEMENTATIONS, utils_crop,
             candidate_crop>>

-----------------------------------------------------------------------------
(* Values *)

NoValue == "None"

NoModel == [cls |-> "None"]

\* The function imported at line 42, and the one defined at line 525.
OrigCrop == "_crop_past_key_values"

IpexCrop == "_ipex_crop_past_key_values"

\* The GenerationConfig objects: the model's own (self.generation_config)
\* and one owned by the caller.
Configs == {"own", "caller"}

\* transformers.generation.configuration_utils.GenerationMode
GenerationModes == {"contrastive_search", "greedy_search", "sample", "assisted_generation",
                    "dola_generation", "beam_search", "beam_sample",
                    "constrained_beam_search", "group_beam_search"}

\* Exceptions the library code raises while decoding.
Exceptions == {"RuntimeError", "ValueError"}

\* Model types the caller may load, one of each membership pattern of the two
\* tuples below: patched and not ready for compile, patched and ready, not
\* patched and ready only with torch >= 2.6, neither.
ModelTypes == {"llama", "bert", "gpt_neox", "opt"}

Devices == {"cpu", "xpu"}

Classes == {"IPEXModel", "IPEXModelForCausalLM", "IPEXModelForSeq2SeqLM"}

\* The two subclasses that mix in GenerationMixin.
GenerationClasses == {"IPEXModelForCausalLM", "IPEXModelForSeq2SeqLM"}

-----------------------------------------------------------------------------
(* Module-level constants *)

_IPEX_SUPPORT_MODEL_TYPES == {"llama", "bert", "vit", "falcon", "gpt2", "qwen2"}

\* Mutant: beam_sample left out of the tuple.
_IPEX_EXPORTED_GENERATION_METHODS_no_beam_sample ==
    {"sample", "greedy_search", "beam_search", "assisted_generation"}

_IPEX_EXPORTED_GENERATION_METHODS ==
    {"sample", "greedy_search", "beam_sample", "beam_search", "assisted_generation"}

_COMPILE_NOT_READY_MODEL_TYPES ==
    IF env.torch_lt_2_6
    THEN {"electra", "roformer", "gpt_neox", "beit", "llama", "falcon", "gpt2", "qwen2"}
    ELSE {"llama", "falcon", "gpt2", "qwen2"}

\* exporters/ipex/model_patcher.py
_IPEX_EXPORTED_GENERATION_TASKS == {"text-generation"}

export_feature(cls) ==
    IF cls = "IPEXModelForCausalLM" THEN "text-generation"
    ELSE IF cls = "IPEXModelForSeq2SeqLM" THEN "text2text-generation"
    ELSE "feature-extraction"

-----------------------------------------------------------------------------
(* Helpers *)

\* Python truthiness of kwargs.get(name, None) for the values used here.
Truthy(v) == v # NoValue

\* getattr(config, "torchscript", False) for an absent, false or true flag.
\* Mutant: hasattr(config, "torchscript") in place of the flag's value.
TorchscriptPresent(flag) == flag # "absent"

Torchscript(flag) == flag = "True"

\* Mutant: the use_cache test of line 88 left out.
_is_patched_with_ipex_any_cache(model_type, task, use_cache) ==
    IF env.ipex_lt_min_patching
    THEN FALSE
    ELSE model_type \in _IPEX_SUPPORT_MODEL_TYPES

_is_patched_with_ipex(model_type, task, use_cache) ==
    IF env.ipex_lt_min_patching
    THEN FALSE
    ELSE IF ~use_cache /\ task \in _IPEX_EXPORTED_GENERATION_TASKS
         THEN FALSE
         ELSE model_type \in _IPEX_SUPPORT_MODEL_TYPES

can_compile(device, model_type, quantization_config, supports_static_cache, use_cache) ==
    IF \/ device # "cpu"
       \/ model_type \in _COMPILE_NOT_READY_MODEL_TYPES
       \/ env.ipex_lt_min_compile
       \/ quantization_config
    THEN FALSE
    ELSE IF use_cache /\ ~supports_static_cache
         THEN FALSE
         ELSE TRUE

\* Mutant: the check forgets self._add_patch.
AssistedCheckAnyModel(add_patch, assistant_model) == Truthy(assistant_model)

\* Line 393: generate refuses assisted decoding on a patched model.
AssistedCheck(add_patch, assistant_model) == add_patch /\ Truthy(assistant_model)

\* Mutant: the registration is left out.
RegisterNothing(mapping) == mapping

\* Line 399: NEED_SETUP_CACHE_CLASSES_MAPPING["ipex_paged"] = IPEXPagedCache
RegisterPagedCache(mapping) ==
    [k \in DOMAIN mapping \cup {"ipex_paged"} |->
        IF k = "ipex_paged" THEN "IPEXPagedCache" ELSE mapping[k]]

Contains(list, x) == \E i \in 1..Len(list) : list[i] = x

\* Mutant: the membership test of line 402 left out.
AppendIpexPagedAlways(list) ==
    IF env.transformers_ge_4_45 THEN Append(list, "ipex_paged") ELSE list

\* Lines 401-403: "ipex_paged" is appended unless the list holds it.
AppendIpexPaged(list) ==
    IF env.transformers_ge_4_45 /\ ~Contains(list, "ipex_paged")
    THEN Append(list, "ipex_paged")
    ELSE list

\* Mutant: the handler re-raises without restoring the hooks.
HandlerCropKeep(hook) == hook

\* Lines 417-418: what the exception handler stores in a crop hook.
HandlerCrop(hook) == OrigCrop

\* The instance IPEXModel.__init__ builds (and, for the causal LM class, what
\* IPEXModelForCausalLM.__init__ adds to it).
NewInstance(cls, m, config, use_cache) ==
    LET add_patch == _is_patched_with_ipex(m.model_type, export_feature(cls), use_cache)
        compile   == can_compile(m.device, m.model_type, m.quantization_config,
                                 m.supports_static_cache, use_cache)
    IN  [cls                    |-> cls,
         model_type             |-> m.model_type,
         _supports_static_cache |-> m.supports_static_cache,
         use_cache              |-> use_cache,
         _add_patch             |-> add_patch,
         compile                |-> compile]

\* The calls the constructor makes, in order.
InitEvents(inst) ==
    <<"__init__">>
    \o (IF inst._add_patch THEN <<"_patch_model">> ELSE <<>>)
    \o (IF inst.compile THEN <<"apply_torch_compile">> ELSE <<>>)

\* The warmup argument IPEXModel.__init__ receives: the caller's, or the
\* warmup=False the two subclasses pass to super().__init__ (lines 312, 451).
BaseWarmup(cls, warmup) == IF cls \in GenerationClasses THEN FALSE ELSE warmup

\* Lines 164-165 and 258-263: the forward-pass warmup of IPEXModel.__init__.
BaseWarmupEvents(inst, warmup) ==
    IF warmup /\ ~inst.compile
    THEN <<"_init_warmup", "model.forward", "model.forward">>
    ELSE <<>>

\* Mutant: the warmup test forgets model.config.compile.
WarmupCallsCompiled(inst, warmup) ==
    IF inst.cls \in GenerationClasses /\ warmup THEN 2 ELSE 0

\* Warmup generate calls the constructor of a generation class will make
\* (lines 336-337 and 431-435, 471-472 and 518-522).
WarmupCalls(inst, warmup) ==
    IF inst.cls \in GenerationClasses /\ warmup /\ ~inst.compile THEN 2 ELSE 0

\* What the constructor of a generation class does after IPEXModel.__init__:
\* it sets self.generation_config (lines 323, 460), then starts the warmup.
GenerationInitEvents(inst, n) ==
    IF inst.cls \in GenerationClasses
    THEN <<"generation_config">> \o (IF n > 0 THEN <<"_init_warmup">> ELSE <<>>)
    ELSE <<>>

\* The pretrained models the caller may load or pass in.
Models ==
    [model_type : ModelTypes, device : Devices, quantization_config : BOOLEAN,
     supports_static_cache : BOOLEAN]

Snapshot ==
    [mapping        |-> NEED_SETUP_CACHE_CLASSES_MAPPING,
     all_impls      |-> ALL_CACHE_IMPLEMENTATIONS,
     utils_crop     |-> utils_crop,
     candidate_crop |-> candidate_crop,
     cache_implementation |-> cache_implementation]

NoFrame ==
    [caller |-> NoValue, assistant_model |-> NoValue, generation_config |-> NoValue,
     orig_cache_implementation |-> "unbound", delegated |-> FALSE]

NoPrepared == [mode |-> NoValue, cache_implementation |-> NoValue, use_cache |-> FALSE]

NoResult == [op |-> NoValue, kind |-> NoValue, exc |-> NoValue]

NoCall == [op |-> NoValue]

NoCrop == [hook |-> NoValue]

NoLog == <<>>

\* The caller thread is between two operations.
Quiescent == pc \in {"idle", "done"} /\ warm = 0

-----------------------------------------------------------------------------
(* Initial state: the libraries are imported, no model has been built. *)

Init ==
    /\ env \in [ipex_lt_min_patching : BOOLEAN,      \* is_ipex_version("<", _IPEX_MINIMUM_VERSION_FOR_PATCHING)
                ipex_lt_min_compile : BOOLEAN,       \* is_ipex_version("<", _IPEX_MINIMUM_VERSION_FOR_COMPILE)
                torch_lt_2_6 : BOOLEAN,              \* is_torch_version("<", "2.6")
                transformers_ge_4_45 : BOOLEAN]      \* is_transformers_version(">=", "4.45.0")
    /\ NEED_SETUP_CACHE_CLASSES_MAPPING = [k \in {"static"} |-> "StaticCache"]
    /\ ALL_CACHE_IMPLEMENTATIONS = <<"static", "dynamic">>
    /\ utils_crop = OrigCrop
    /\ candidate_crop = OrigCrop
    /\ self = NoModel
    /\ bound = FALSE
    /\ warm = 0
    /\ cache_implementation = [c \in Configs |-> NoValue]
    /\ pc = "idle"
    /\ frame = NoFrame
    /\ pre = Snapshot
    /\ prepared = NoPrepared
    /\ exc = NoValue
    /\ crop = NoCrop
    /\ result = NoResult
    /\ call = NoCall
    /\ log = NoLog

-----------------------------------------------------------------------------
(* Construction *)

\* IPEXModel.__init__, and the __init__ of a generation class up to its warmup:
\* the instance replaces the one the caller held, its generation_config is
\* a fresh GenerationConfig.from_model_config(self.config).
Construct(op, flag, cls, m, config, use_cache, warmup) ==
    LET inst == NewInstance(cls, m, config, use_cache)
        n    == WarmupCalls(inst, warmup)
    IN  /\ self' = inst
        /\ warm' = n
        /\ bound' = (n = 0)
        /\ cache_implementation' = [cache_implementation EXCEPT !["own"] = NoValue]
        /\ pc' = IF n = 0 THEN "idle" ELSE "init"
        /\ call' = [op |-> op, torchscript |-> flag, cls |-> cls, model |-> m,
                    config |-> IF Truthy(config) THEN config ELSE "model.config",
                    use_cache |-> use_cache, warmup |-> warmup]
        /\ log' = (IF op = "__init__" THEN <<>> ELSE <<"auto_model_class.from_pretrained">>)
                   \o InitEvents(inst)
                   \o BaseWarmupEvents(inst, BaseWarmup(cls, warmup))
                   \o GenerationInitEvents(inst, n)
        /\ result' = IF n = 0 THEN [op |-> op, kind |-> "return", exc |-> NoValue]
                     ELSE [op |-> op, kind |-> "running", exc |-> NoValue]
        /\ frame' = NoFrame
        /\ pre' = Snapshot
        /\ prepared' = NoPrepared
        /\ exc' = NoValue
        /\ UNCHANGED <<env, crop, globals>>

\* cls(model, config=..., use_cache=..., warmup=...)
New ==
    /\ Quiescent
    /\ self = NoModel
    /\ \E cls \in Classes, m \in Models, config \in {NoValue, "given"},
          use_cache \in BOOLEAN, warmup \in BOOLEAN :
          Construct("__init__", "absent", cls, m, config, use_cache, warmup)

\* cls._from_pretrained(model_id, config, **kwargs) and cls._from_transformers,
\* which calls it with the same arguments (lines 167-192).
FromPretrained ==
    /\ Quiescent
    /\ self = NoModel
    /\ \E op \in {"_from_pretrained", "_from_transformers"},
          flag \in {"absent", "False", "True"} :
          IF Torchscript(flag)
          THEN /\ call' = [op |-> op, torchscript |-> flag]
               /\ log' = NoLog
               /\ result' = [op |-> op, kind |-> "raise", exc |-> "ValueError"]
               /\ pc' = "idle"
               /\ frame' = NoFrame
               /\ pre' = Snapshot
               /\ prepared' = NoPrepared
               /\ exc' = NoValue
               /\ UNCHANGED <<env, crop, globals, self, bound, warm, cache_implementation>>
          ELSE \E cls \in Classes, m \in Models, use_cache \in BOOLEAN, warmup \in BOOLEAN :
                  Construct(op, flag, cls, m, "model.config", use_cache, warmup)

\* The caller drops its reference to the instance (del model).
Del ==
    /\ Quiescent
    /\ self # NoModel
    /\ self' = NoModel
    /\ bound' = FALSE
    /\ cache_implementation' = [cache_implementation EXCEPT !["own"] = NoValue]
    /\ pc' = "idle"
    /\ frame' = NoFrame
    /\ pre' = Snapshot
    /\ prepared' = NoPrepared
    /\ exc' = NoValue
    /\ result' = NoResult
    /\ call' = NoCall
    /\ log' = NoLog
    /\ UNCHANGED <<env, crop, globals, warm>>

\* The caller creates or edits its own GenerationConfig; the record of the
\* operation before it is dropped.
SetCallerConfig ==
    /\ Quiescent
    /\ \E v \in {NoValue, "static"} :
          /\ cache_implementation["caller"] # v
          /\ cache_implementation' = [cache_implementation EXCEPT !["caller"] = v]
    /\ pc' = "idle"
    /\ frame' = NoFrame
    /\ pre' = Snapshot
    /\ exc' = NoValue
    /\ result' = NoResult
    /\ call' = NoCall
    /\ log' = NoLog
    /\ UNCHANGED <<env, crop, globals, self, bound, warm, prepared>>

-----------------------------------------------------------------------------
(* IPEXModelForCausalLM.generate *)

\* Lines 393-415: the assisted-decoding check, the patching of the library's
\* module-level state, and the call of GenerationMixin.generate.
GenerateEnter(caller, assistant_model, generation_config) ==
    LET add_patch == self._add_patch
        fr == [caller |-> caller, assistant_model |-> assistant_model,
               generation_config |-> generation_config,
               orig_cache_implementation |-> "unbound", delegated |-> FALSE]
    IN
    /\ pre' = Snapshot
    /\ prepared' = NoPrepared
    /\ exc' = NoValue
    /\ IF AssistedCheck(add_patch, assistant_model)
       THEN \* line 394
            /\ result' = [op |-> "generate", kind |-> "raise", exc |-> "ValueError"]
            /\ frame' = fr
            /\ pc' = "done"
            /\ UNCHANGED <<globals, cache_implementation>>
       ELSE /\ IF add_patch
               THEN \* lines 399-407
                    LET own == [cache_implementation EXCEPT !["own"] = "ipex_paged"]
                    IN  /\ NEED_SETUP_CACHE_CLASSES_MAPPING' =
                              RegisterPagedCache(NEED_SETUP_CACHE_CLASSES_MAPPING)
                        /\ ALL_CACHE_IMPLEMENTATIONS' = AppendIpexPaged(ALL_CACHE_IMPLEMENTATIONS)
                        /\ IF Truthy(generation_config)
                           THEN /\ frame' = [fr EXCEPT !.orig_cache_implementation = own[generation_config],
                                                       !.delegated = TRUE]
                                /\ cache_implementation' =
                                      [own EXCEPT ![generation_config] = "ipex_paged"]
                           ELSE /\ frame' = [fr EXCEPT !.delegated = TRUE]
                                /\ cache_implementation' = own
               ELSE /\ frame' = [fr EXCEPT !.delegated = TRUE]
                    /\ UNCHANGED <<NEED_SETUP_CACHE_CLASSES_MAPPING, ALL_CACHE_IMPLEMENTATIONS,
                                   cache_implementation>>
            \* lines 409-412
            /\ IF add_patch /\ Truthy(assistant_model)
               THEN /\ utils_crop' = IpexCrop
                    /\ UNCHANGED candidate_crop
               ELSE IF add_patch
                    THEN /\ candidate_crop' = IpexCrop
                         /\ UNCHANGED utils_crop
                    ELSE UNCHANGED <<utils_crop, candidate_crop>>
            \* line 415
            /\ pc' = "delegated"
            /\ UNCHANGED result

\* model.generate(...) called by the caller.
Generate ==
    /\ Quiescent
    /\ bound
    /\ self.cls = "IPEXModelForCausalLM"
    /\ \E assistant_model \in {NoValue, "assistant"},
          generation_config \in {NoValue} \cup Configs :
          GenerateEnter("user", assistant_model, generation_config)
    /\ call' = NoCall
    /\ log' = NoLog
    /\ UNCHANGED <<env, crop, self, bound, warm>>

\* _init_warmup (lines 431-435): each of its two generate calls.
InitWarmup ==
    /\ pc \in {"init", "done"}
    /\ warm > 0
    /\ self.cls = "IPEXModelForCausalLM"
    /\ GenerateEnter("warmup", NoValue, NoValue)
    /\ warm' = warm - 1
    /\ call' = NoCall
    /\ log' = Append(log, "generate")
    /\ UNCHANGED <<env, crop, self, bound>>

\* _prepare_generation_config (lines 350-368), called by the delegated
\* generation.  The base method returns a copy of the generation config the
\* call uses; mode is the generation mode that copy resolves to.
PrepareGenerationConfig ==
    /\ pc = "delegated"
    /\ \E mode \in GenerationModes :
          LET source == IF Truthy(frame.generation_config)
                        THEN frame.generation_config ELSE "own"
              impl   == IF /\ self.compile
                           /\ cache_implementation[source] # "ipex_paged"
                           /\ self._supports_static_cache
                        THEN "static"
                        ELSE cache_implementation[source]
          IN  IF mode \notin _IPEX_EXPORTED_GENERATION_METHODS
              THEN /\ exc' = "ValueError"
                   /\ prepared' = [mode |-> mode, cache_implementation |-> NoValue,
                                   use_cache |-> self.use_cache]
                   /\ pc' = "raising"
              ELSE /\ prepared' = [mode |-> mode, cache_implementation |-> impl,
                                   use_cache |-> self.use_cache]
                   /\ pc' = "decoding"
                   /\ UNCHANGED exc
    /\ UNCHANGED <<env, crop, globals, self, bound, warm, cache_implementation, frame, pre,
                   result, call, log>>

\* The library code raises while it validates or decodes.
DelegateRaise ==
    /\ pc \in {"delegated", "decoding"}
    /\ \E e \in Exceptions : exc' = e
    /\ prepared' = NoPrepared
    /\ pc' = "raising"
    /\ crop' = NoCrop
    /\ UNCHANGED <<env, globals, self, bound, warm, cache_implementation, frame, pre,
                   result, call, log>>

\* Lines 416-419: the handler of an exception of the delegated generation.
\* An exception of a warmup call leaves the constructor, too.
GenerateExcept ==
    /\ pc = "raising"
    /\ utils_crop' = HandlerCrop(utils_crop)
    /\ candidate_crop' = HandlerCrop(candidate_crop)
    /\ result' = [op |-> "generate", kind |-> "raise", exc |-> exc]
    /\ pc' = "done"
    /\ warm' = IF frame.caller = "warmup" THEN 0 ELSE warm
    /\ prepared' = NoPrepared
    /\ crop' = NoCrop
    /\ UNCHANGED <<env, NEED_SETUP_CACHE_CLASSES_MAPPING, ALL_CACHE_IMPLEMENTATIONS, self,
                   bound, cache_implementation, frame, pre, exc, call, log>>

\* Lines 421-429: the delegated generation has returned.  The constructor
\* returns when its second warmup call has.
GenerateReturn ==
    /\ pc = "decoding"
    /\ IF self._add_patch /\ Truthy(frame.assistant_model)
       THEN /\ utils_crop' = OrigCrop
            /\ candidate_crop' = OrigCrop
       ELSE UNCHANGED <<utils_crop, candidate_crop>>
    /\ IF self._add_patch /\ Truthy(frame.generation_config)
       THEN cache_implementation' =
               [cache_implementation EXCEPT ![frame.generation_config] =
                                               frame.orig_cache_implementation]
       ELSE UNCHANGED cache_implementation
    /\ result' = [op |-> "generate", kind |-> "return", exc |-> NoValue]
    /\ pc' = "done"
    /\ bound' = IF frame.caller = "warmup" /\ warm = 0 THEN TRUE ELSE bound
    /\ prepared' = NoPrepared
    /\ crop' = NoCrop
    /\ UNCHANGED <<env, NEED_SETUP_CACHE_CLASSES_MAPPING, ALL_CACHE_IMPLEMENTATIONS, self,
                   warm, frame, pre, exc, call, log>>

-----------------------------------------------------------------------------
(* IPEXModelForSeq2SeqLM *)

\* _init_warmup (lines 518-522): each of its two generate calls.  The class
\* inherits generate from GenerationMixin; the call returns or raises, and an
\* exception leaves the constructor.
Seq2SeqInitWarmup ==
    /\ pc \in {"init", "done"}
    /\ warm > 0
    /\ self.cls = "IPEXModelForSeq2SeqLM"
    /\ log' = Append(log, "generate")
    /\ \/ /\ result' = [op |-> "GenerationMixin.generate", kind |-> "return", exc |-> NoValue]
          /\ warm' = warm - 1
          /\ bound' = (warm = 1)
       \/ \E e \in Exceptions :
             /\ result' = [op |-> "GenerationMixin.generate", kind |-> "raise", exc |-> e]
             /\ warm' = 0
             /\ UNCHANGED bound
    /\ pc' = "done"
    /\ call' = NoCall
    /\ UNCHANGED <<env, crop, globals, self, cache_implementation, frame, pre, prepared, exc>>

-----------------------------------------------------------------------------
(* The crop hook *)

\* The model a crop hook is called on, as the hook sees it.
CropModel(is_ipex, model_type, use_cache, add_patch) ==
    [is_ipex |-> is_ipex, model_type |-> model_type, use_cache |-> use_cache,
     add_patch |-> add_patch]

\* The assistant models the caller may pass: plain transformers models, and
\* IPEXModelForCausalLM instances, whose add_patch their constructor set.
AssistantModels ==
    {CropModel(FALSE, t, TRUE, FALSE) : t \in {"llama", "opt"}}
    \cup {CropModel(TRUE, t, u, _is_patched_with_ipex(t, export_feature("IPEXModelForCausalLM"), u)) :
             t \in {"llama", "opt"}, u \in BOOLEAN}

CacheTypes == {"IPEXPagedCache", "DynamicCache"}

\* _ipex_crop_past_key_values (lines 525-533): "paged_crop" is
\* past_key_values.crop(max_length), "original" is the result of the
\* imported _crop_past_key_values.
_ipex_crop_past_key_values(model, past_key_values) ==
    IF model.is_ipex /\ _is_patched_with_ipex(model.model_type, "text-generation", TRUE)
    THEN IF past_key_values = "IPEXPagedCache"
         THEN "paged_crop"
         ELSE "ValueError"
    ELSE "original"

\* Assisted decoding crops a cache through the module attributes: the
\* candidate generator crops the assistant's cache, the decoding loop of
\* transformers.generation.utils the cache of the model itself.
CropPastKeyValues ==
    /\ pc = "decoding"
    /\ Truthy(frame.assistant_model)
    /\ \E via \in {"candidate_generator", "utils"}, past_key_values \in CacheTypes :
          \E model \in IF via = "utils"
                        THEN {CropModel(TRUE, self.model_type, self.use_cache, self._add_patch)}
                        ELSE AssistantModels :
             LET hook    == IF via = "utils" THEN utils_crop ELSE candidate_crop
                 outcome == IF hook = IpexCrop
                            THEN _ipex_crop_past_key_values(model, past_key_values)
                            ELSE "original"
             IN  /\ crop' = [hook |-> hook, via |-> via, model |-> model,
                             past_key_values |-> past_key_values, outcome |-> outcome]
                 /\ prepared' = NoPrepared
                 /\ IF outcome = "ValueError"
                    THEN /\ exc' = "ValueError"
                         /\ pc' = "raising"
                    ELSE UNCHANGED <<exc, pc>>
    /\ UNCHANGED <<env, globals, self, bound, warm, cache_implementation, frame, pre,
                   result, call, log>>

-----------------------------------------------------------------------------

Next ==
    \/ New
    \/ FromPretrained
    \/ Del
    \/ SetCallerConfig
    \/ Generate
    \/ InitWarmup
    \/ Seq2SeqInitWarmup
    \/ PrepareGenerationConfig
    \/ CropPastKeyValues
    \/ DelegateRaise
    \/ GenerateExcept
    \/ GenerateReturn

Spec == Init /\ [][Next]_vars

-----------------------------------------------------------------------------
(* Properties *)

InGenerate == pc \in {"delegated", "decoding", "raising"}

\* A generate call has just ended.
GenerateDone == pc = "done" /\ result.op = "generate"

GenerateReturned == GenerateDone /\ result.kind = "return"

GenerateRaised == GenerateDone /\ result.kind = "raise"

HooksAreOriginal == utils_crop = OrigCrop /\ candidate_crop = OrigCrop

\* C1: when the delegated generation of a generate call (on a patched or an
\* unpatched model) raises, then on exit from generate both crop hooks are
\* the original crop function and the caller gets that same exception.
C1_ExceptionRestoresHooks ==
    (GenerateRaised /\ frame.delegated)
        => (HooksAreOriginal /\ exc # NoValue /\ result.exc = exc)

\* A patched model's generate replaced the candidate-generator hook, the
\* delegated generation raised RuntimeError, and generate has ended.
C1_Witness ==
    /\ GenerateRaised
    /\ frame.delegated
    /\ self._add_patch
    /\ pre.candidate_crop = OrigCrop
    /\ exc = "RuntimeError"

\* C2: after a generate call on a patched model returns normally, both crop
\* hooks are the original crop function.
C2_ReturnRestoresHooks ==
    (GenerateReturned /\ self._add_patch) => HooksAreOriginal

\* C3 as stated: when a generate call on a patched model ends, by return or
\* by exception, the list of allowed cache implementations is what it was
\* before the call.
C3_ListAsBefore ==
    (GenerateDone /\ self._add_patch) => ALL_CACHE_IMPLEMENTATIONS = pre.all_impls

\* C3 amended: the entry stays.  When a generate call on a patched model
\* ends, by return or by exception, the list is the list before the call
\* with "ipex_paged" appended once if the call got past the assisted-decoding
\* check, the library has the list and the list did not hold the entry; it
\* is the list before the call otherwise.
C3_EntryAppendedOnceAndKept ==
    (GenerateDone /\ self._add_patch)
        => ALL_CACHE_IMPLEMENTATIONS =
              IF /\ frame.delegated
                 /\ env.transformers_ge_4_45
                 /\ ~Contains(pre.all_impls, "ipex_paged")
              THEN Append(pre.all_impls, "ipex_paged")
              ELSE pre.all_impls

\* A generate call on a patched model that found the list without the entry
\* has ended, and the list holds it.
C3_Witness ==
    /\ GenerateDone
    /\ self._add_patch
    /\ ~Contains(pre.all_impls, "ipex_paged")
    /\ Contains(ALL_CACHE_IMPLEMENTATIONS, "ipex_paged")

\* C4: generate on a patched model with an assistant_model raises ValueError
\* with nothing changed (mapping, list, hooks, both generation configs) and
\* without calling the delegated generation; on an unpatched model the same
\* arguments get past that check.
C4_AssistedRejectedUntouched ==
    /\ (GenerateDone /\ self._add_patch /\ Truthy(frame.assistant_model))
          => /\ result.kind = "raise"
             /\ result.exc = "ValueError"
             /\ ~frame.delegated
             /\ Snapshot = pre
    /\ (InGenerate /\ self._add_patch) => ~Truthy(frame.assistant_model)
    /\ ((InGenerate \/ GenerateDone) /\ ~self._add_patch /\ Truthy(frame.assistant_model))
          => frame.delegated

\* A patched model has rejected a call that passed an assistant_model and the
\* caller's own generation config, whose cache_implementation was "static".
C4_Witness ==
    /\ GenerateRaised
    /\ self._add_patch
    /\ Truthy(frame.assistant_model)
    /\ frame.generation_config = "caller"
    /\ pre.cache_implementation["caller"] = "static"

\* C5: _prepare_generation_config raises ValueError exactly when the resolved
\* generation mode is not sample, greedy_search, beam_sample, beam_search or
\* assisted_generation, and returns for each of these five.
C5_UnsupportedModeRaises ==
    prepared.mode # NoValue
        => IF prepared.mode \in {"sample", "greedy_search", "beam_sample", "beam_search",
                                 "assisted_generation"}
           THEN pc = "decoding" /\ exc = NoValue
           ELSE pc = "raising" /\ exc = "ValueError"

\* _prepare_generation_config has raised for group beam search.
C5_Witness ==
    /\ prepared.mode = "group_beam_search"
    /\ pc = "raising"
    /\ exc = "ValueError"

\* C6: _from_pretrained and _from_transformers raise ValueError for a config
\* whose torchscript flag is true, before the model is loaded and before an
\* instance is built; otherwise they load the model and return an instance
\* built from the loaded model's config.
C6_TorchscriptRejectedBeforeLoad ==
    call.op \in {"_from_pretrained", "_from_transformers"}
        => IF call.torchscript = "True"
           THEN /\ result = [op |-> call.op, kind |-> "raise", exc |-> "ValueError"]
                /\ log = <<>>
                /\ self = NoModel
           ELSE /\ Len(log) >= 2
                /\ log[1] = "auto_model_class.from_pretrained"
                /\ log[2] = "__init__"
                /\ self # NoModel
                /\ self.cls = call.cls
                /\ call.config = "model.config"

\* _from_transformers has rejected a torchscript config.
C6_Witness ==
    /\ call.op = "_from_transformers"
    /\ call.torchscript = "True"
    /\ result.kind = "raise"

\* The condition C7 names, for the construction that has just run.
C7_Condition ==
    /\ ~env.ipex_lt_min_patching
    /\ call.model.model_type \in {"llama", "bert", "vit", "falcon", "gpt2", "qwen2"}
    /\ ~(~call.use_cache /\ call.cls = "IPEXModelForCausalLM")

C8_CallerConfigAsBefore ==
    (GenerateDone /\ self._add_patch /\ Truthy(frame.generation_config))
        => cache_implementation[frame.generation_config] =
              pre.cache_implementation[frame.generation_config]

\* C9: no IPEXModelForCausalLM instance has add_patch and model.config.compile
\* both true.
C9_PatchExcludesCompile ==
    (self # NoModel /\ self.cls = "IPEXModelForCausalLM")
        => ~(self._add_patch /\ self.compile)

\* C10: when generate on a patched model calls the delegated generation,
\* "ipex_paged" maps to the paged cache class, is in the list of allowed cache
\* implementations (where the library has the list), the candidate-generator
\* hook is the IPEX crop function, and the model's generation config and the
\* one the caller passed both select "ipex_paged".
C10_SetupPrecedesDelegation ==
    (pc = "delegated" /\ self._add_patch)
        => /\ "ipex_paged" \in DOMAIN NEED_SETUP_CACHE_CLASSES_MAPPING
           /\ NEED_SETUP_CACHE_CLASSES_MAPPING["ipex_paged"] = "IPEXPagedCache"
           /\ env.transformers_ge_4_45 => Contains(ALL_CACHE_IMPLEMENTATIONS, "ipex_paged")
           /\ candidate_crop = IpexCrop
           /\ cache_implementation["own"] = "ipex_paged"
           /\ Truthy(frame.generation_config)
                 => cache_implementation[frame.generation_config] = "ipex_paged"

\* The first generate call of a patched model is about to delegate: nothing
\* was registered before it, and the caller's config asked for "static".
C10_Witness ==
    /\ pc = "delegated"
    /\ self._add_patch
    /\ "ipex_paged" \notin DOMAIN pre.mapping
    /\ pre.candidate_crop = OrigCrop
    /\ frame.generation_config = "caller"
    /\ pre.cache_implementation["caller"] = "static"


\* C11: the crop hook agrees with the patch decision.  Whenever the installed
\* hook _ipex_crop_past_key_values is called, it returns what the original
\* _crop_past_key_values returns for every model whose add_patch is false (a
\* supported model type created with use_cache false, any non-IPEX model),
\* and it takes the paged path (crop of an IPEXPagedCache, or ValueError) only
\* for a model whose add_patch is true.
C11_CropAgreesWithPatch ==
    crop.hook = IpexCrop =>
        /\ ~crop.model.add_patch => crop.outcome = "original"
        /\ crop.outcome \in {"paged_crop", "ValueError"} => crop.model.add_patch


\* Number of times the construction made the call e.
Count(e) == Cardinality({i \in 1..Len(log) : log[i] = e})

\* The construction passed the call a before it made any call b.
Precedes(a, b) ==
    \E i \in 1..Len(log) : log[i] = a /\ \A j \in 1..i : log[j] # b

\* A warmup generate call has raised, which ended the constructor.
WarmupAborted ==
    /\ ~bound
    /\ warm = 0
    /\ result.op \in {"generate", "GenerationMixin.generate"}
    /\ result.kind = "raise"

\* C12: the construction of an IPEXModelForCausalLM or IPEXModelForSeq2SeqLM
\* warms up at most once and never a compiled model.  It runs _init_warmup
\* exactly when warmup is true and model.config.compile is false, once, after
\* generation_config has been set, and that warmup is two consecutive generate
\* calls (fewer only when one of them raises); otherwise the construction makes
\* no generate call; and it never makes the forward-pass warmup calls of
\* IPEXModel.__init__.
C12_WarmupOncePerConstruction ==
    (self # NoModel /\ self.cls \in GenerationClasses /\ log # NoLog)
        => /\ Count("model.forward") = 0
           /\ Count("generation_config") = 1
           /\ Count("_init_warmup") <= 1
           /\ call.op # NoValue
                 => (Count("_init_warmup") = 1 <=> (call.warmup /\ ~self.compile))
           /\ Count("_init_warmup") = 1
                 => /\ ~self.compile
                    /\ Precedes("generation_config", "_init_warmup")
                    /\ Precedes("_init_warmup", "generate")
                    /\ \/ Count("generate") + warm = 2
                       \/ WarmupAborted /\ Count("generate") \in {1, 2}
                    /\ bound => Count("generate") = 2 /\ result.kind = "return"
                    /\ Count("generate") = 2
                          => log[Len(log) - 1] = "generate" /\ log[Len(log)] = "generate"
           /\ Count("_init_warmup") = 0
                 => Count("generate") = 0 /\ warm = 0 /\ bound

\* The constructor of a generation class has returned after a warmup of two
\* generate calls.
C12_Witness ==
    /\ self # NoModel
    /\ self.cls \in GenerationClasses
    /\ bound
    /\ Count("_init_warmup") = 1
    /\ Count("generate") = 2
    /\ result.kind = "return"

=============================================================================
